---- MODULE Spec2Model ----
(***************************************************************************)
(* TMDB MCP server (CineScope_Recommender/mcp_server.py): the dispatcher   *)
(* call_tool, the response cache, the retrying upstream client _tmdb_get   *)
(* and the three query operations.                                         *)
(*                                                                         *)
(* The server runs on one asyncio event loop: the code between two         *)
(* suspension points (await client.get, await asyncio.sleep) runs          *)
(* atomically, so every action below is one such stretch of a call.        *)
(***************************************************************************)
EXTENDS Integers, Sequences, FiniteSets, TLC

\* ---------------------------------------------------------------------------
\* Program constants (mcp_server.py:40-42)
\* ---------------------------------------------------------------------------
CACHE_TTL_SECONDS == 300
MAX_RETRIES == 3
INITIAL_BACKOFF_SECONDS == 1

\* ---------------------------------------------------------------------------
\* Bounds of the model
\* ---------------------------------------------------------------------------
\* number of calls the external caller makes in one behaviour
MaxCalls == 2
\* the wall clock stops advancing once it would pass MaxTime
MaxTime == 301

\* ---------------------------------------------------------------------------
\* JSON / Python values.  Every value is a record [t, s, n]: t the type tag,
\* s the characters of a string, n the number of an int, bool or float
\* (floats are kept in tenths: 8.8 is 88).
\* ---------------------------------------------------------------------------
None == [t |-> "null", s |-> <<>>, n |-> 0]
PyStr(cs) == [t |-> "str", s |-> cs, n |-> 0]
PyInt(k) == [t |-> "int", s |-> <<>>, n |-> k]
PyBool(b) == [t |-> "bool", s |-> <<>>, n |-> IF b THEN 1 ELSE 0]
PyFloat(tenths) == [t |-> "float", s |-> <<>>, n |-> tenths]

\* Python truthiness, as used by `x or y`, `if not x`, `if x`
Truthy(v) ==
    CASE v.t = "null" -> FALSE
      [] v.t = "str" -> v.s # <<>>
      [] OTHER -> v.n # 0

\* Python `x or y`
Or(x, y) == IF Truthy(x) THEN x ELSE y

\* isinstance(v, int): bool is a subclass of int
IsInstanceInt(v) == v.t \in {"int", "bool"}

Whitespace == {" "}
Digits == {"0", "1", "2", "3", "4", "5", "6", "7", "8", "9"}

DigitVal(c) ==
    CASE c = "0" -> 0 [] c = "1" -> 1 [] c = "2" -> 2 [] c = "3" -> 3
      [] c = "4" -> 4 [] c = "5" -> 5 [] c = "6" -> 6 [] c = "7" -> 7
      [] c = "8" -> 8 [] c = "9" -> 9

\* str.strip(): drop leading and trailing whitespace
RECURSIVE LStrip(_)
LStrip(cs) ==
    IF cs # <<>> /\ Head(cs) \in Whitespace THEN LStrip(Tail(cs)) ELSE cs

RECURSIVE RStrip(_)
RStrip(cs) ==
    IF cs # <<>> /\ cs[Len(cs)] \in Whitespace
    THEN RStrip(SubSeq(cs, 1, Len(cs) - 1))
    ELSE cs

Strip(cs) == RStrip(LStrip(cs))

\* value of a non-empty string of decimal digits
RECURSIVE DigitsValue(_)
DigitsValue(cs) ==
    IF cs = <<>> THEN 0
    ELSE 10 * DigitsValue(SubSeq(cs, 1, Len(cs) - 1)) + DigitVal(cs[Len(cs)])

IsDigits(cs) == cs # <<>> /\ \A i \in 1..Len(cs) : cs[i] \in Digits

\* Python exceptions: TMDBError carries code and status (mcp_server.py:78-82);
\* the others are the built-in exceptions the modelled code can raise.
TMDBError(message, code, status) ==
    [cls |-> "TMDBError", code |-> code, message |-> message, status |-> status]

Builtin(cls, message) ==
    [cls |-> cls, code |-> "", message |-> message, status |-> 0]

NoExc == Builtin("", "")

\* int(v): [ok, n] or the exception raised
IntOf(v) ==
    CASE v.t \in {"int", "bool"} -> [ok |-> TRUE, n |-> v.n, exc |-> NoExc]
      [] v.t = "float" -> [ok |-> TRUE, n |-> v.n \div 10, exc |-> NoExc]
      [] v.t = "str" ->
            IF IsDigits(Strip(v.s))
            THEN [ok |-> TRUE, n |-> DigitsValue(Strip(v.s)), exc |-> NoExc]
            ELSE [ok |-> FALSE, n |-> 0,
                  exc |-> Builtin("ValueError", "invalid literal for int()")]
      [] OTHER -> [ok |-> FALSE, n |-> 0,
                   exc |-> Builtin("TypeError", "int() argument must be a string or a number")]

\* ---------------------------------------------------------------------------
\* Argument objects: a JSON object is the sequence of its (key, value) pairs in
\* insertion order, keys distinct.
\* ---------------------------------------------------------------------------
Pair(k, v) == [k |-> k, v |-> v]

HasKey(d, k) == \E i \in 1..Len(d) : d[i].k = k

\* dict.get(k, default)
Get(d, k, default) ==
    IF HasKey(d, k) THEN d[CHOOSE i \in 1..Len(d) : d[i].k = k].v ELSE default

\* lexicographic rank of the argument keys the tools know
KeyRank(k) ==
    CASE k = "genre" -> 1 [] k = "id" -> 2 [] k = "language" -> 3
      [] k = "query" -> 4 [] k = "sort_by" -> 5 [] k = "type" -> 6
      [] k = "year" -> 7

\* json.dumps(args) without sort_keys: the pairs in insertion order
JsonDumps_unsorted(d) == d

\* json.dumps(args, sort_keys=True): the pairs in key order
RECURSIVE JsonDumpsSorted(_)
JsonDumpsSorted(d) ==
    IF d = <<>> THEN <<>>
    ELSE LET m == CHOOSE i \in 1..Len(d) :
                      \A j \in 1..Len(d) : KeyRank(d[i].k) <= KeyRank(d[j].k)
             rest == [j \in 1..(Len(d) - 1) |-> IF j < m THEN d[j] ELSE d[j + 1]]
         IN  <<d[m]>> \o JsonDumpsSorted(rest)

CacheKey(tool_name, args) == <<tool_name, JsonDumpsSorted(args)>>

\* ---------------------------------------------------------------------------
\* Result Normalizer (_map_search_item).  A raw provider record is a record of
\* its fields; a field the provider left out holds Absent.
\* ---------------------------------------------------------------------------
Absent == [t |-> "absent", s |-> <<>>, n |-> 0]

\* item.get(k) and item.get(k, default)
ItemGet(item, k, default) == IF item[k] = Absent THEN default ELSE item[k]

\* the date taken whole, without the split
SplitDashFirst_whole(cs) == cs

\* s.split("-")[0]: the characters before the first "-"
RECURSIVE SplitDashFirst(_)
SplitDashFirst(cs) ==
    IF cs = <<>> \/ Head(cs) = "-" THEN <<>>
    ELSE <<Head(cs)>> \o SplitDashFirst(Tail(cs))

\* float(v) in tenths: [ok, n] or the exception raised.  A string parses when
\* it is digits, or digits "." digit.
FloatOf(v) ==
    CASE v.t \in {"int", "bool"} -> [ok |-> TRUE, n |-> 10 * v.n, exc |-> NoExc]
      [] v.t = "float" -> [ok |-> TRUE, n |-> v.n, exc |-> NoExc]
      [] v.t = "str" ->
            LET cs == Strip(v.s)
                k == Len(cs)
            IN  IF IsDigits(cs)
                THEN [ok |-> TRUE, n |-> 10 * DigitsValue(cs), exc |-> NoExc]
                ELSE IF k >= 3 /\ cs[k - 1] = "." /\ cs[k] \in Digits
                        /\ IsDigits(SubSeq(cs, 1, k - 2))
                THEN [ok |-> TRUE,
                      n |-> 10 * DigitsValue(SubSeq(cs, 1, k - 2)) + DigitVal(cs[k]),
                      exc |-> NoExc]
                ELSE [ok |-> FALSE, n |-> 0,
                      exc |-> Builtin("ValueError", "could not convert string to float")]
      [] OTHER -> [ok |-> FALSE, n |-> 0,
                   exc |-> Builtin("TypeError", "float() argument must be a string or a number")]

NoItem ==
    [id |-> None, title |-> None, type |-> None, year |-> None, rating |-> None,
     overview |-> None, poster_path |-> None]

\* _map_search_item(item, item_type): [ok, item] or the exception raised, the
\* statements evaluated in the order of the code
map_search_item(item, item_type) ==
    LET title == Or(Or(ItemGet(item, "title", None), ItemGet(item, "name", None)),
                    PyStr(<<>>))
        date_field == Or(ItemGet(item, "release_date", None),
                         ItemGet(item, "first_air_date", None))
        yr == IF date_field.t = "str" THEN IntOf(PyStr(SplitDashFirst(date_field.s)))
              ELSE [ok |-> FALSE, n |-> 0,
                    exc |-> Builtin("AttributeError", "object has no attribute 'split'")]
        year == IF Truthy(date_field) THEN PyInt(yr.n) ELSE None
        rt == FloatOf(Or(ItemGet(item, "vote_average", None), PyFloat(0)))
        idv == IntOf(item["id"])
        Raise(e) == [ok |-> FALSE, item |-> NoItem, exc |-> e]
    IN  IF Truthy(date_field) /\ ~yr.ok THEN Raise(yr.exc)
        ELSE IF ~rt.ok THEN Raise(rt.exc)
        ELSE IF item["id"] = Absent THEN Raise(Builtin("KeyError", "'id'"))
        ELSE IF ~idv.ok THEN Raise(idv.exc)
        ELSE [ok |-> TRUE,
              item |-> [id |-> PyInt(idv.n),
                        title |-> title,
                        type |-> item_type,
                        year |-> year,
                        rating |-> PyFloat(rt.n),
                        overview |-> ItemGet(item, "overview", PyStr(<<>>)),
                        poster_path |-> ItemGet(item, "poster_path", None)],
              exc |-> NoExc]

\* ---------------------------------------------------------------------------
\* String literals of the code, as character sequences
\* ---------------------------------------------------------------------------
MOVIE == PyStr(<<"m", "o", "v", "i", "e">>)
TV == PyStr(<<"t", "v">>)
POPULARITY == PyStr(<<"p", "o", "p", "u", "l", "a", "r", "i", "t", "y">>)
VOTE_AVERAGE == PyStr(<<"v", "o", "t", "e", "_", "a", "v", "e", "r", "a", "g", "e">>)
EN_US == PyStr(<<"e", "n", "-", "U", "S">>)

\* ---------------------------------------------------------------------------
\* Query operations.  Each is cut at its one suspension point, the await of
\* _tmdb_get: <op>_request is the code before it (validation, request
\* building), <op>_result the code after it (normalisation, payload).
\* ---------------------------------------------------------------------------
NoRequest == [path |-> "", id |-> 0, params |-> <<>>]

\* the request handed to _tmdb_get: the path (its media id apart) and params
Requested(path, id, params) ==
    [ok |-> TRUE, request |-> [path |-> path, id |-> id, params |-> params], exc |-> NoExc]

Raised(e) == [ok |-> FALSE, request |-> NoRequest, exc |-> e]

\* params[<type-appropriate year filter>] = year, when a year was given
YearParam(item_type, year) ==
    IF year = None THEN <<>>
    ELSE IF item_type = MOVIE THEN <<Pair("primary_release_year", year)>>
    ELSE <<Pair("first_air_date_year", year)>>

\* _search_title, lines 199-219
search_title_request(args) ==
    LET q == Get(args, "query", PyStr(<<>>))
        query == Strip(q.s)
        item_type == Or(Get(args, "type", None), MOVIE)
        year == Get(args, "year", None)
        language == Or(Get(args, "language", None), EN_US)
    IN  IF q.t # "str"
        THEN Raised(Builtin("AttributeError", "object has no attribute 'strip'"))
        ELSE IF query = <<>>
        THEN Raised(TMDBError("query is required", "VALIDATION_ERROR", 400))
        ELSE IF item_type \notin {MOVIE, TV}
        THEN Raised(TMDBError("type must be 'movie' or 'tv'", "VALIDATION_ERROR", 400))
        ELSE IF year # None /\ ~IsInstanceInt(year)
        THEN Raised(TMDBError("year must be an integer", "VALIDATION_ERROR", 400))
        ELSE Requested(IF item_type = MOVIE THEN "/search/movie" ELSE "/search/tv", 0,
                       <<Pair("query", PyStr(query)), Pair("language", language),
                         Pair("include_adult", PyBool(FALSE))>>
                       \o YearParam(item_type, year))

\* _get_recommendations, lines 235-245
get_recommendations_request(args) ==
    LET media_id == IntOf(Get(args, "id", None))
        item_type == Get(args, "type", None)
    IN  IF ~media_id.ok
        THEN Raised(TMDBError("id must be an integer", "VALIDATION_ERROR", 400))
        ELSE IF item_type \notin {MOVIE, TV}
        THEN Raised(TMDBError("type must be 'movie' or 'tv'", "VALIDATION_ERROR", 400))
        ELSE Requested(IF item_type = MOVIE THEN "/movie/{id}/recommendations"
                       ELSE "/tv/{id}/recommendations",
                       media_id.n, <<Pair("language", EN_US)>>)

\* _discover, lines 275-304
discover_request(args) ==
    LET item_type == Get(args, "type", None)
        year == Get(args, "year", None)
        language == Or(Get(args, "language", None), EN_US)
        sort_by == Or(Get(args, "sort_by", None), POPULARITY)
    IN  IF item_type \notin {MOVIE, TV}
        THEN Raised(TMDBError("type must be 'movie' or 'tv'", "VALIDATION_ERROR", 400))
        ELSE IF sort_by \notin {POPULARITY, VOTE_AVERAGE}
        THEN Raised(TMDBError("sort_by must be 'popularity' or 'vote_average'",
                              "VALIDATION_ERROR", 400))
        ELSE IF year # None /\ ~IsInstanceInt(year)
        THEN Raised(TMDBError("year must be an integer", "VALIDATION_ERROR", 400))
        ELSE Requested(IF item_type = MOVIE THEN "/discover/movie" ELSE "/discover/tv", 0,
                       <<Pair("language", language), Pair("include_adult", PyBool(FALSE)),
                         Pair("sort_by", sort_by)>>
                       \o YearParam(item_type, year))

\* ---------------------------------------------------------------------------
\* The parsed response body handed back by _tmdb_get: json says what
\* resp.json() made of the body ("invalid": it raised ValueError; "object": a
\* JSON object; "array": a JSON value that is no object), results the value
\* of its "results" member.
\* ---------------------------------------------------------------------------
NoBody == [json |-> "none", results |-> <<>>]

NoPayload == [results |-> <<>>, source |-> "", fetched_at |-> -1]

Payload(results, t) == [results |-> results, source |-> "TMDB", fetched_at |-> t]

Returned(payload) == [ok |-> TRUE, payload |-> payload, exc |-> NoExc]

Failed(e) == [ok |-> FALSE, payload |-> NoPayload, exc |-> e]

\* [_map_search_item(item, item_type) for item in results]: the mapped items,
\* or the exception of the first item that raises
RECURSIVE MapAll(_, _)
MapAll(results, item_type) ==
    IF results = <<>> THEN [ok |-> TRUE, items |-> <<>>, exc |-> NoExc]
    ELSE LET m == map_search_item(Head(results), item_type)
             rest == MapAll(Tail(results), item_type)
         IN  IF ~m.ok THEN [ok |-> FALSE, items |-> <<>>, exc |-> m.exc]
             ELSE IF ~rest.ok THEN rest
             ELSE [ok |-> TRUE, items |-> <<m.item>> \o rest.items, exc |-> NoExc]

DataGetFails == Builtin("AttributeError", "object has no attribute 'get'")

\* _search_title without its `if not results` test: an empty list is a success
search_title_result_no_test(args, data, t) ==
    LET item_type == Or(Get(args, "type", None), MOVIE)
        mapped == MapAll(data.results, item_type)
    IN  IF data.json # "object" THEN Failed(DataGetFails)
        ELSE IF ~mapped.ok THEN Failed(mapped.exc)
        ELSE Returned(Payload(mapped.items, t))

\* _search_title, lines 222-231
search_title_result(args, data, t) ==
    LET item_type == Or(Get(args, "type", None), MOVIE)
        mapped == MapAll(data.results, item_type)
    IN  IF data.json # "object" THEN Failed(DataGetFails)
        ELSE IF data.results = <<>>
        THEN Failed(TMDBError("No results for query", "TITLE_NOT_FOUND", 404))
        ELSE IF ~mapped.ok THEN Failed(mapped.exc)
        ELSE Returned(Payload(mapped.items, t))

\* the reason of one recommendation (lines 253-257, 263): the fragments that
\* apply, None when none does; format(v, ".1f") raises ValueError on a string
Reason(item) ==
    LET va == ItemGet(item, "vote_average", None)
        pop == ItemGet(item, "popularity", None)
        f1 == IF Truthy(va) THEN <<[text |-> "high user rating", x |-> FloatOf(va).n]>>
              ELSE <<>>
        f2 == IF Truthy(pop) THEN <<[text |-> "popular among similar viewers", x |-> 0]>>
              ELSE <<>>
    IN  IF Truthy(va) /\ va.t = "str"
        THEN [ok |-> FALSE, reason |-> <<>>,
              exc |-> Builtin("ValueError", "Unknown format code 'f' for object of type 'str'")]
        ELSE [ok |-> TRUE, reason |-> f1 \o f2, exc |-> NoExc]

\* the loop of _get_recommendations, lines 251-265
RECURSIVE RecsAll(_, _)
RecsAll(results, item_type) ==
    IF results = <<>> THEN [ok |-> TRUE, items |-> <<>>, exc |-> NoExc]
    ELSE LET base == map_search_item(Head(results), item_type)
             reason == Reason(Head(results))
             rest == RecsAll(Tail(results), item_type)
         IN  IF ~base.ok THEN [ok |-> FALSE, items |-> <<>>, exc |-> base.exc]
             ELSE IF ~reason.ok THEN [ok |-> FALSE, items |-> <<>>, exc |-> reason.exc]
             ELSE IF ~rest.ok THEN rest
             ELSE [ok |-> TRUE,
                   items |-> <<[id |-> base.item.id, title |-> base.item.title,
                                year |-> base.item.year, reason |-> reason.reason]>>
                             \o rest.items,
                   exc |-> NoExc]

\* _get_recommendations, lines 248-271
get_recommendations_result(args, data, t) ==
    LET item_type == Get(args, "type", None)
        recs == RecsAll(data.results, item_type)
    IN  IF data.json # "object" THEN Failed(DataGetFails)
        ELSE IF ~recs.ok THEN Failed(recs.exc)
        ELSE Returned(Payload(recs.items, t))

\* _discover, lines 307-314
discover_result(args, data, t) ==
    LET item_type == Get(args, "type", None)
        mapped == MapAll(data.results, item_type)
    IN  IF data.json # "object" THEN Failed(DataGetFails)
        ELSE IF ~mapped.ok THEN Failed(mapped.exc)
        ELSE Returned(Payload(mapped.items, t))

\* ---------------------------------------------------------------------------
\* State
\* ---------------------------------------------------------------------------
VARIABLES
    TMDB_API_KEY,   \* os.getenv("TMDB_API_KEY"): None or a string, fixed at import
    now,            \* time.time(), the wall clock
    _cache,         \* {(tool_name, args_json): (ts, data)}
    calls           \* calls[c]: the c-th invocation of call_tool, its locals and its outcome

vars == <<TMDB_API_KEY, now, _cache, calls>>

Calls == 1..MaxCalls

\* ---------------------------------------------------------------------------
\* Response cache (lines 47-71)
\* ---------------------------------------------------------------------------
\* _cache_get without its expiry test: an entry is returned whatever its age
_cache_get_no_expiry(tool_name, args, t) ==
    LET key == CacheKey(tool_name, args)
    IN  IF key \notin DOMAIN _cache
        THEN [found |-> FALSE, data |-> NoPayload, cache |-> _cache, evicted |-> FALSE]
        ELSE [found |-> TRUE, data |-> _cache[key].data, cache |-> _cache, evicted |-> FALSE]

\* _cache_get on a map that inserts a placeholder for a key it is asked for
\* and does not hold (a defaultdict)
_cache_get_insert(tool_name, args, t) ==
    LET key == CacheKey(tool_name, args)
    IN  IF key \notin DOMAIN _cache
        THEN [found |-> FALSE, data |-> NoPayload,
              cache |-> [k \in DOMAIN _cache \cup {key} |->
                           IF k = key THEN [ts |-> t, data |-> NoPayload] ELSE _cache[k]],
              evicted |-> FALSE]
        ELSE IF t - _cache[key].ts > CACHE_TTL_SECONDS
        THEN [found |-> FALSE, data |-> NoPayload,
              cache |-> [k \in DOMAIN _cache \ {key} |-> _cache[k]], evicted |-> TRUE]
        ELSE [found |-> TRUE, data |-> _cache[key].data, cache |-> _cache, evicted |-> FALSE]

\* _cache_get with the expiry test written `>=`
_cache_get_ge(tool_name, args, t) ==
    LET key == CacheKey(tool_name, args)
    IN  IF key \notin DOMAIN _cache
        THEN [found |-> FALSE, data |-> NoPayload, cache |-> _cache, evicted |-> FALSE]
        ELSE IF t - _cache[key].ts >= CACHE_TTL_SECONDS
        THEN [found |-> FALSE, data |-> NoPayload,
              cache |-> [k \in DOMAIN _cache \ {key} |-> _cache[k]], evicted |-> TRUE]
        ELSE [found |-> TRUE, data |-> _cache[key].data, cache |-> _cache, evicted |-> FALSE]

\* _cache_get at time t: the value returned (found says it is not None) and
\* the cache it leaves
_cache_get(tool_name, args, t) ==
    LET key == CacheKey(tool_name, args)
    IN  IF key \notin DOMAIN _cache
        THEN [found |-> FALSE, data |-> NoPayload, cache |-> _cache, evicted |-> FALSE]
        ELSE IF t - _cache[key].ts > CACHE_TTL_SECONDS
        THEN [found |-> FALSE, data |-> NoPayload,
              cache |-> [k \in DOMAIN _cache \ {key} |-> _cache[k]], evicted |-> TRUE]
        ELSE [found |-> TRUE, data |-> _cache[key].data, cache |-> _cache, evicted |-> FALSE]

\* _cache_set at time t: the cache it leaves
\* _cache_set written with dict.setdefault: an entry already held is kept
_cache_set_setdefault(tool_name, args, data, t) ==
    LET key == CacheKey(tool_name, args)
    IN  [k \in DOMAIN _cache \cup {key} |->
            IF k \in DOMAIN _cache THEN _cache[k] ELSE [ts |-> t, data |-> data]]

_cache_set(tool_name, args, data, t) ==
    LET key == CacheKey(tool_name, args)
    IN  [k \in DOMAIN _cache \cup {key} |->
            IF k = key THEN [ts |-> t, data |-> data] ELSE _cache[k]]

\* ---------------------------------------------------------------------------
\* Upstream client (_tmdb_get, lines 85-175)
\* ---------------------------------------------------------------------------
\* What one HTTP attempt can come to: a transport failure (httpx.RequestError)
\* or a response with a status code and a body
RequestError == [kind |-> "RequestError", status_code |-> 0, body |-> NoBody]

Response(status_code, body) == [kind |-> "response", status_code |-> status_code, body |-> body]

NoResp == [kind |-> "none", status_code |-> 0, body |-> NoBody]

Sleep == [act |-> "sleep", exc |-> NoExc, data |-> NoBody]

Raise(e) == [act |-> "raise", exc |-> e, data |-> NoBody]

Return(data) == [act |-> "return", exc |-> NoExc, data |-> data]

\* a 4xx other than 429 taken for a server error and retried
Classify_retry4xx(o) ==
    IF o.kind = "RequestError" THEN "NETWORK_ERROR"
    ELSE IF o.status_code = 429 THEN "RATE_LIMIT"
    ELSE IF o.status_code >= 400 THEN "UPSTREAM_ERROR"
    ELSE "OK"

\* the branch of the loop body an outcome takes, in the order the code tests
\* them (lines 99, 120, 138, 157), named by the error code of the branch
Classify(o) ==
    IF o.kind = "RequestError" THEN "NETWORK_ERROR"
    ELSE IF o.status_code = 429 THEN "RATE_LIMIT"
    ELSE IF o.status_code >= 500 THEN "UPSTREAM_ERROR"
    ELSE IF o.status_code >= 400 THEN "BAD_REQUEST"
    ELSE "OK"

\* the budget taken to be spent one attempt late
LastAttempt_late(attempt) == attempt = MAX_RETRIES + 1

\* the budget taken to be spent one attempt early
LastAttempt_early(attempt) == attempt >= MAX_RETRIES - 1

\* `if attempt == MAX_RETRIES` (lines 109, 127, 146)
LastAttempt(attempt) == attempt = MAX_RETRIES

\* one iteration of the retry loop (lines 96-172) on the outcome o of its
\* request: sleep and go round again, raise, or return the parsed body
tmdb_get_attempt(o, attempt) ==
    LET branch == Classify(o)
    IN  CASE branch = "NETWORK_ERROR" ->
               IF LastAttempt(attempt)
               THEN Raise(TMDBError("Network error talking to TMDB", "NETWORK_ERROR", 500))
               ELSE Sleep
          [] branch = "RATE_LIMIT" ->
               IF LastAttempt(attempt)
               THEN Raise(TMDBError("TMDB rate limit reached after retries", "RATE_LIMIT", 429))
               ELSE Sleep
          [] branch = "UPSTREAM_ERROR" ->
               IF LastAttempt(attempt)
               THEN Raise(TMDBError("TMDB service unavailable", "UPSTREAM_ERROR",
                                    o.status_code))
               ELSE Sleep
          [] branch = "BAD_REQUEST" ->
               Raise(TMDBError("TMDB returned status", "BAD_REQUEST", o.status_code))
          [] OTHER ->
               IF o.body.json = "invalid"
               THEN Raise(TMDBError("Failed to parse TMDB JSON", "JSON_ERROR", 500))
               ELSE Return(o.body)

\* the guard written `TMDB_API_KEY is None`: an empty key passes it
KeyMissing_is_none == TMDB_API_KEY = None

\* the guard of _tmdb_get (lines 86-87): `not TMDB_API_KEY`
KeyMissing == ~Truthy(TMDB_API_KEY)

ConfigError == TMDBError("TMDB_API_KEY missing in environment", "CONFIG_ERROR", 500)

\* ---------------------------------------------------------------------------
\* Dispatcher (call_tool, lines 378-454)
\* ---------------------------------------------------------------------------
DataTools == {"search_title", "get_recommendations", "discover"}

\* the dispatch chain ending in a plain `else` that takes the last operation
Dispatch_no_else(name, arguments) ==
    CASE name = "search_title" -> search_title_request(arguments)
      [] name = "get_recommendations" -> get_recommendations_request(arguments)
      [] OTHER -> discover_request(arguments)

\* lines 405-412 up to the await of _tmdb_get
Dispatch(name, arguments) ==
    CASE name = "search_title" -> search_title_request(arguments)
      [] name = "get_recommendations" -> get_recommendations_request(arguments)
      [] name = "discover" -> discover_request(arguments)
      [] OTHER -> Raised(TMDBError("Unknown tool", "UNKNOWN_TOOL", 400))

\* lines 405-410 after _tmdb_get has returned data
DispatchResult(name, arguments, data, t) ==
    CASE name = "search_title" -> search_title_result(arguments, data, t)
      [] name = "get_recommendations" -> get_recommendations_result(arguments, data, t)
      [] OTHER -> discover_result(arguments, data, t)

\* the built-in exception classes the modelled code raises, all of them
\* subclasses of Exception
ExceptionSubclasses == {"AttributeError", "KeyError", "TypeError", "ValueError"}

\* call_tool without its `except Exception` clause
ExceptClause_tmdb_only(e) == IF e.cls = "TMDBError" THEN "TMDBError" ELSE "none"

\* which except clause of call_tool takes e (lines 421, 439)
ExceptClause(e) ==
    IF e.cls = "TMDBError" THEN "TMDBError"
    ELSE IF e.cls \in ExceptionSubclasses THEN "Exception"
    ELSE "none"

NoResult ==
    [isError |-> FALSE, error |-> "", message |-> "", source |-> "", payload |-> NoPayload]

\* CallToolResult(content=[json.dumps(payload)]) (lines 391-394, 418-420)
Success(payload) ==
    [isError |-> FALSE, error |-> "", message |-> "", source |-> "", payload |-> payload]

\* the error envelopes (lines 423-437, 441-454)
Envelope(e) ==
    IF ExceptClause(e) = "TMDBError"
    THEN [isError |-> TRUE, error |-> e.code, message |-> e.message, source |-> "TMDB",
          payload |-> NoPayload]
    ELSE [isError |-> TRUE, error |-> "INTERNAL_ERROR", message |-> e.message, source |-> "",
          payload |-> NoPayload]

\* a health payload that counts only the entries still within their TTL
HealthPayload_live ==
    [status |-> "ok", tmdb_api_key_configured |-> Truthy(TMDB_API_KEY),
     cache_entries |->
        Cardinality({k \in DOMAIN _cache : now - _cache[k].ts <= CACHE_TTL_SECONDS}),
     timestamp_utc |-> now]

\* the health payload (lines 385-390)
HealthPayload ==
    [status |-> "ok", tmdb_api_key_configured |-> Truthy(TMDB_API_KEY),
     cache_entries |-> Cardinality(DOMAIN _cache), timestamp_utc |-> now]

NewCall ==
    [pc |-> "new", name |-> "", arguments |-> <<>>, lookup |-> "none",
     request |-> NoRequest, attempt |-> 0, backoff |-> 0, delays |-> <<>>,
     resp |-> NoResp, result |-> NoResult, exc |-> NoExc]

\* the call returns result r
Done(call, r) == [call EXCEPT !.pc = "done", !.result = r]

\* exception e ends the call: an envelope is returned, or e leaves call_tool
Ends(call, e) ==
    IF ExceptClause(e) = "none" THEN [call EXCEPT !.pc = "raised", !.exc = e]
    ELSE [Done(call, Envelope(e)) EXCEPT !.exc = e]

\* lines 405-414 once _tmdb_get has returned or raised: what the operation
\* makes of it
Operation(call, a, t) ==
    IF a.act = "raise" THEN Failed(a.exc)
    ELSE DispatchResult(call.name, call.arguments, a.data, t)

\* _cache_set moved to a `finally`: it runs whether the operation returned or raised
CacheAfter_finally(call, r, t) == _cache_set(call.name, call.arguments, r.payload, t)

\* line 414: _cache_set is reached only when the operation returned
CacheAfter(call, r, t) ==
    IF r.ok THEN _cache_set(call.name, call.arguments, r.payload, t) ELSE _cache

\* ---------------------------------------------------------------------------
\* Inputs: tool names, argument objects, provider records, attempt outcomes
\* ---------------------------------------------------------------------------
Names == {"health", "search_title", "get_recommendations", "discover", "get_cast"}

QUERY == PyStr(<<"U", "p">>)

\* the argument objects of the concurrent specification: one object in both
\* key orders, valid for search_title alone, and one valid for discover alone
ArgObjects ==
    { <<Pair("query", QUERY), Pair("year", PyInt(2010))>>,
      <<Pair("year", PyInt(2010)), Pair("query", QUERY)>>,
      <<Pair("type", MOVIE)>> }

\* the argument values of the single-call specification, key by key; Absent
\* says the key is left out
QueryValues ==
    { Absent, None, PyInt(7), PyStr(<<>>), PyStr(<<" ">>), PyStr(<<" ", "U", "p">>), QUERY }

TypeValues == { Absent, MOVIE, TV, PyStr(<<"b", "o", "o", "k">>), PyStr(<<>>) }

YearValues == { Absent, PyInt(2010), PyStr(<<"2", "0", "1", "0">>), PyBool(TRUE) }

IdValues == { Absent, PyInt(12), PyStr(<<"1", "2">>), PyStr(<<"a", "b", "c">>) }

SortByValues == { Absent, VOTE_AVERAGE, PyStr(<<"d", "a", "t", "e">>) }

Present(p) == p.v # Absent

\* every argument object over those values
AllArgObjects ==
    { SelectSeq(<<Pair("query", q), Pair("type", ty), Pair("year", y), Pair("id", i),
                  Pair("sort_by", sb)>>, Present) :
        q \in QueryValues, ty \in TypeValues, y \in YearValues, i \in IdValues,
        sb \in SortByValues }

\* the provider record of tests/test_mcp_server.py:24-31
ItemInception ==
    [id |-> PyInt(123),
     title |-> PyStr(<<"I", "n", "c", "e", "p", "t", "i", "o", "n">>),
     name |-> Absent,
     release_date |-> PyStr(<<"2", "0", "1", "0", "-", "0", "7", "-", "1", "6">>),
     first_air_date |-> Absent,
     vote_average |-> PyFloat(88),
     overview |-> PyStr(<<"D", "r", "e", "a", "m">>),
     poster_path |-> PyStr(<<"/", "p">>),
     popularity |-> PyFloat(905)]

\* a tv record without dates, rating and overview
ItemNoDate ==
    [id |-> PyInt(7), title |-> Absent, name |-> PyStr(<<"U", "p">>),
     release_date |-> Absent, first_air_date |-> Absent, vote_average |-> Absent,
     overview |-> Absent, poster_path |-> Absent, popularity |-> Absent]

\* a record whose date does not start with a year
ItemBadDate ==
    [ItemNoDate EXCEPT !.release_date = PyStr(<<"T", "B", "A">>)]

\* a tv record: first_air_date, an integer rating, the id as a string
ItemShow ==
    [id |-> PyStr(<<"4", "2">>), title |-> Absent, name |-> PyStr(<<"D", "a", "r", "k">>),
     release_date |-> Absent,
     first_air_date |-> PyStr(<<"2", "0", "1", "7", "-", "1", "2", "-", "0", "1">>),
     vote_average |-> PyInt(8), overview |-> PyStr(<<>>), poster_path |-> None,
     popularity |-> Absent]

\* a record not yet released: the provider sends an empty release_date
ItemUnreleased ==
    [ItemNoDate EXCEPT !.release_date = PyStr(<<>>), !.first_air_date = PyStr(<<>>)]

Object(results) == [json |-> "object", results |-> results]

InvalidJson == [json |-> "invalid", results |-> <<>>]

ArrayJson == [json |-> "array", results |-> <<>>]

\* the outcomes of an attempt in the concurrent specification
Outcomes ==
    { Response(429, NoBody),
      Response(200, Object(<<>>)), Response(200, Object(<<ItemInception>>)) }

\* the outcomes of an attempt in the single-call specification: every status
\* class at its edges, every kind of body
Bodies ==
    { InvalidJson, ArrayJson, Object(<<>>), Object(<<ItemInception>>),
      Object(<<ItemNoDate, ItemInception>>), Object(<<ItemBadDate>>),
      Object(<<ItemShow, ItemUnreleased, ItemInception>>) }

AllOutcomes ==
    {RequestError}
    \cup { Response(st, NoBody) : st \in {400, 429, 499, 500} }
    \cup { Response(200, b) : b \in Bodies }
    \cup { Response(302, InvalidJson), Response(302, Object(<<ItemInception>>)) }

\* ---------------------------------------------------------------------------
\* Actions: one per stretch of call_tool between two suspension points
\* ---------------------------------------------------------------------------
\* time.sleep(backoff) in place of `await asyncio.sleep(backoff)`: the thread
\* of the event loop sleeps with the call
Yields_blocking_sleep(pc) == pc = "http"

\* the awaits at which a suspended call hands the event loop to the other
\* calls: the request (line 98) and the backoff sleep (lines 116, 134, 153)
Yields(pc) == pc \in {"http", "sleep"}

\* the event loop can run a stretch of call c: no other call holds it
LoopFree(c) ==
    \A e \in Calls \ {c} : calls[e].pc \in {"new", "done", "raised"} \/ Yields(calls[e].pc)

\* call_tool(name, arguments) is invoked and runs to its first await or to
\* its return (lines 379-414, 198-220, 85-98)
call_tool(c, names, argsets) ==
    /\ calls[c].pc = "new"
    /\ \A d \in Calls : d < c => calls[d].pc # "new"
    /\ LoopFree(c)
    /\ \E name \in names, arguments \in argsets :
          LET call == [calls[c] EXCEPT !.name = name, !.arguments = arguments]
              got == _cache_get(name, arguments, now)
              op == Dispatch(name, arguments)
              looked == [call EXCEPT !.lookup = IF got.found THEN "hit"
                                                ELSE IF got.evicted THEN "expired"
                                                ELSE "absent"]
          IN  IF name = "health"
              THEN /\ calls' = [calls EXCEPT ![c] = Done(call, Success(HealthPayload))]
                   /\ UNCHANGED _cache
              ELSE /\ _cache' = got.cache
                   /\ calls' = [calls EXCEPT ![c] =
                         IF got.found THEN Done(looked, Success(got.data))
                         ELSE IF ~op.ok THEN Ends(looked, op.exc)
                         ELSE IF KeyMissing
                         THEN Ends([looked EXCEPT !.request = op.request], ConfigError)
                         ELSE [looked EXCEPT !.pc = "http", !.request = op.request,
                                             !.attempt = 1,
                                             !.backoff = INITIAL_BACKOFF_SECONDS]]
    /\ UNCHANGED <<TMDB_API_KEY, now>>

\* the request of call c completes with outcome o and the call runs on to its
\* next await (the backoff sleep) or to its return (lines 98-172, 222-231,
\* 248-271, 307-314, 414-454)
HttpDone(c, outcomes) ==
    /\ calls[c].pc = "http"
    /\ LoopFree(c)
    /\ \E o \in outcomes :
          LET call == [calls[c] EXCEPT !.resp = o]
              a == tmdb_get_attempt(o, call.attempt)
              r == Operation(call, a, now)
          IN  IF a.act = "sleep"
              THEN /\ calls' = [calls EXCEPT ![c] =
                         [call EXCEPT !.pc = "sleep",
                                      !.delays = Append(@, call.backoff)]]
                   /\ UNCHANGED _cache
              ELSE /\ _cache' = CacheAfter(call, r, now)
                   /\ calls' = [calls EXCEPT ![c] =
                         IF r.ok THEN Done(call, Success(r.payload))
                         ELSE Ends(call, r.exc)]
    /\ UNCHANGED <<TMDB_API_KEY, now>>

\* the retry written as a fresh fetch after the sleep (`return await
\* _tmdb_get(path, params)`): the attempt count and the backoff start over
Wake_restart(c) ==
    /\ calls[c].pc = "sleep"
    /\ calls' = [calls EXCEPT ![c] =
          [@ EXCEPT !.pc = "http", !.backoff = INITIAL_BACKOFF_SECONDS, !.attempt = 1,
                    !.delays = <<>>, !.resp = NoResp]]
    /\ UNCHANGED <<TMDB_API_KEY, now, _cache>>

\* a backoff that stays what it is
NextBackoff_constant(backoff) == backoff

\* backoff *= 2 (lines 117, 135, 154)
NextBackoff(backoff) == 2 * backoff

\* asyncio.sleep(backoff) returns: backoff doubles and the loop goes round,
\* issuing the next request, or runs out (lines 115-117, 133-135, 152-154,
\* 95-98, 175)
Wake(c) ==
    /\ calls[c].pc = "sleep"
    /\ LoopFree(c)
    /\ calls' = [calls EXCEPT ![c] =
          IF calls[c].attempt + 1 <= MAX_RETRIES
          THEN [@ EXCEPT !.pc = "http", !.backoff = NextBackoff(@), !.attempt = @ + 1,
                         !.resp = NoResp]
          ELSE Ends([@ EXCEPT !.backoff = NextBackoff(@)],
                    TMDBError("Exhausted TMDB retries", "UNKNOWN_ERROR", 500))]
    /\ UNCHANGED <<TMDB_API_KEY, now, _cache>>

\* the wall clock advances, by the TTL or by just more than the TTL
Tick ==
    /\ \E d \in {CACHE_TTL_SECONDS, CACHE_TTL_SECONDS + 1} :
          /\ now + d <= MaxTime
          /\ now' = now + d
    /\ UNCHANGED <<TMDB_API_KEY, _cache, calls>>

\* os.getenv("TMDB_API_KEY") (line 34): unset, empty or a key
Init ==
    /\ TMDB_API_KEY \in {None, PyStr(<<>>), PyStr(<<"k">>)}
    /\ now = 0
    /\ _cache = [k \in {} |-> [ts |-> 0, data |-> NoPayload]]
    /\ calls = [c \in Calls |-> NewCall]

Next ==
    \/ \E c \in Calls : call_tool(c, Names, ArgObjects)
    \/ \E c \in Calls : HttpDone(c, Outcomes)
    \/ \E c \in Calls : Wake(c)
    \/ Tick

Spec == Init /\ [][Next]_vars

\* One call at a fixed time, over every argument object and every outcome
NextSingle ==
    \/ call_tool(1, Names, AllArgObjects)
    \/ HttpDone(1, AllOutcomes)
    \/ Wake(1)

SpecSingle == Init /\ [][NextSingle]_vars

\* Concurrent calls under a fair scheduler and a network that answers: every
\* pending request completes (a response, a transport failure or the timeout
\* of the client, line 97) and every asyncio.sleep returns
LiveNames == {"discover", "search_title"}

LiveArgObjects == { <<Pair("type", MOVIE)>> }

NextLive ==
    \/ \E c \in Calls : call_tool(c, LiveNames, LiveArgObjects)
    \/ \E c \in Calls : HttpDone(c, Outcomes)
    \/ \E c \in Calls : Wake(c)

Fairness ==
    \A c \in Calls : WF_vars(HttpDone(c, Outcomes)) /\ WF_vars(Wake(c))

SpecLive == Init /\ [][NextLive]_vars /\ Fairness

\* ---------------------------------------------------------------------------
\* Vocabulary of the properties
\* ---------------------------------------------------------------------------
Ended(c) == calls[c].pc \in {"done", "raised"}

\* the classification of an attempt's outcome, as the specification words it
Transient(o) ==
    \/ o.kind = "RequestError"
    \/ o.kind = "response" /\ (o.status_code = 429 \/ o.status_code >= 500)

TransientCode(o) ==
    IF o.kind = "RequestError" THEN "NETWORK_ERROR"
    ELSE IF o.status_code = 429 THEN "RATE_LIMIT"
    ELSE "UPSTREAM_ERROR"

TransientCodes == {"NETWORK_ERROR", "RATE_LIMIT", "UPSTREAM_ERROR"}

Permanent4xx(o) ==
    o.kind = "response" /\ o.status_code >= 400 /\ o.status_code <= 499 /\ o.status_code # 429

Unparseable(o) ==
    o.kind = "response" /\ o.status_code < 400 /\ o.body.json = "invalid"

Parseable(o) ==
    o.kind = "response" /\ o.status_code < 400 /\ o.body.json # "invalid"

\* ---------------------------------------------------------------------------
\* C1: a fetch issues at most 3 HTTP attempts; a fetch whose attempts are all
\* retryable issues exactly 3 and then fails with the code of the third
\* attempt's classification (NETWORK_ERROR, RATE_LIMIT, UPSTREAM_ERROR), never
\* with a generic code; it cannot end on a retryable outcome earlier.
\* ---------------------------------------------------------------------------
C1_RetryBudget ==
    \A c \in Calls :
        /\ calls[c].attempt <= 3
        /\ Ended(c) /\ Transient(calls[c].resp) =>
              /\ calls[c].pc = "done"
              /\ calls[c].attempt = 3
              /\ calls[c].result.isError
              /\ calls[c].result.error = TransientCode(calls[c].resp)
        /\ calls[c].result.error \notin {"GENERIC_ERROR", "UNKNOWN_ERROR"}

\* a fetch exhausted by three retryable outcomes, the last a transport failure
C1_Witness ==
    \E c \in Calls :
        /\ calls[c].pc = "done" /\ calls[c].attempt = 3 /\ Len(calls[c].delays) = 2
        /\ calls[c].resp = RequestError
        /\ calls[c].result.error = "NETWORK_ERROR"

\* ---------------------------------------------------------------------------
\* C2: at any attempt, a 4xx status other than 429 ends the fetch with
\* BAD_REQUEST and a body below 400 that does not parse ends it with
\* JSON_ERROR: the call is over, with no attempt and no backoff delay after it.
\* ---------------------------------------------------------------------------
C2_PermanentFailures ==
    \A c \in Calls :
        /\ Permanent4xx(calls[c].resp) =>
              /\ calls[c].pc = "done"
              /\ calls[c].result.isError /\ calls[c].result.error = "BAD_REQUEST"
              /\ Len(calls[c].delays) = calls[c].attempt - 1
        /\ Unparseable(calls[c].resp) =>
              /\ calls[c].pc = "done"
              /\ calls[c].result.isError /\ calls[c].result.error = "JSON_ERROR"
              /\ Len(calls[c].delays) = calls[c].attempt - 1

\* BAD_REQUEST on the second attempt, after one retryable failure and one sleep
C2_Witness ==
    \E c \in Calls :
        /\ calls[c].pc = "done" /\ calls[c].attempt = 2 /\ calls[c].delays = <<1>>
        /\ Permanent4xx(calls[c].resp)
        /\ calls[c].result.error = "BAD_REQUEST"

\* ---------------------------------------------------------------------------
\* C3: a parseable response below 400 on a later attempt ends the fetch with
\* that body: no transient code is surfaced, and a well-formed body gives a
\* success; a transient code is surfaced only by a retryable third attempt.
\* ---------------------------------------------------------------------------
C3_TransientDiscarded ==
    \A c \in Calls :
        /\ Parseable(calls[c].resp) =>
              /\ calls[c].pc = "done"
              /\ calls[c].result.error \notin TransientCodes
              /\ calls[c].resp.body = Object(<<ItemInception>>) =>
                    /\ ~calls[c].result.isError
                    /\ Len(calls[c].result.payload.results) = 1
                    /\ calls[c].result.payload.results[1].id = PyInt(123)
        /\ calls[c].result.error \in TransientCodes =>
              calls[c].attempt = 3 /\ Transient(calls[c].resp)

\* a success on the third attempt, after two retryable failures
C3_Witness ==
    \E c \in Calls :
        /\ calls[c].pc = "done" /\ calls[c].attempt = 3 /\ calls[c].delays = <<1, 2>>
        /\ calls[c].resp = Response(200, Object(<<ItemInception>>))
        /\ ~calls[c].result.isError

\* two argument objects equal up to key order
SameUpToOrder(a, b) ==
    /\ Len(a) = Len(b)
    /\ {a[i] : i \in 1..Len(a)} = {b[i] : i \in 1..Len(b)}

\* cache key k is the key of a call of tool name with argument object args
KeyOf(k, name, args) == k[1] = name /\ SameUpToOrder(k[2], args)

SameCall(c, d) ==
    /\ calls[c].name = calls[d].name
    /\ SameUpToOrder(calls[c].arguments, calls[d].arguments)

\* call c fetched its payload from upstream and returned it
Fetched(c) ==
    /\ calls[c].pc = "done" /\ ~calls[c].result.isError
    /\ calls[c].name \in DataTools /\ calls[c].lookup # "hit"

Failure(c) == calls[c].pc = "done" /\ calls[c].result.isError

\* this step is the invocation of call d
Invoked(d) == calls[d].pc = "new" /\ calls'[d].pc # "new"

Age(k) == now - _cache[k].ts

\* ---------------------------------------------------------------------------
\* C4: the cache holds only payloads of successful data operations: every
\* entry is the payload a call of that key fetched and returned, so a call
\* that ended in an error envelope wrote none, and a later call of the same
\* key is not served the error from the cache: unless another call of that key
\* has succeeded it misses, and fetches upstream afresh where the failed call
\* had reached upstream.
\* ---------------------------------------------------------------------------
C4_OnlySuccessCached ==
    /\ \A k \in DOMAIN _cache :
          \E c \in Calls :
              /\ Fetched(c) /\ KeyOf(k, calls[c].name, calls[c].arguments)
              /\ _cache[k].data = calls[c].result.payload
    /\ \A c, d \in Calls :
          ( /\ c < d /\ SameCall(c, d) /\ Failure(c) /\ calls[d].pc # "new"
            /\ \A e \in Calls \ {d} : SameCall(e, d) => ~Fetched(e) ) =>
              /\ calls[d].lookup = "absent"
              /\ calls[c].attempt >= 1 => calls[d].attempt >= 1
    /\ \A d \in Calls :
          calls[d].lookup = "hit" => calls[d].pc = "done" /\ ~calls[d].result.isError

\* TITLE_NOT_FOUND on one call, then the same search fetched afresh at once
C4_Witness ==
    \E c, d \in Calls :
        /\ c < d /\ SameCall(c, d) /\ now = 0
        /\ Failure(c) /\ calls[c].result.error = "TITLE_NOT_FOUND"
        /\ Fetched(d) /\ calls[d].lookup = "absent" /\ calls[d].attempt >= 1

\* ---------------------------------------------------------------------------
\* C5: a data call made while the cache holds an entry of its operation name
\* and of its arguments up to key order, of age at most 300 seconds, is a
\* cache hit: it returns the stored payload at once, issues no upstream
\* request and leaves the cache as it was.
\* ---------------------------------------------------------------------------
C5_CacheHit ==
    [][ \A d \in Calls : \A k \in DOMAIN _cache :
          ( /\ Invoked(d)
            /\ KeyOf(k, calls'[d].name, calls'[d].arguments)
            /\ Age(k) <= 300 ) =>
              /\ calls'[d].pc = "done"
              /\ calls'[d].lookup = "hit"
              /\ ~calls'[d].result.isError
              /\ calls'[d].result.payload = _cache[k].data
              /\ calls'[d].attempt = 0
              /\ _cache' = _cache ]_vars

\* a hit by a call whose arguments are those of the fetching call in another order
C5_Witness ==
    \E c, d \in Calls :
        /\ c < d /\ SameCall(c, d) /\ calls[c].arguments # calls[d].arguments
        /\ Fetched(c)
        /\ calls[d].pc = "done" /\ calls[d].lookup = "hit" /\ calls[d].attempt = 0
        /\ calls[d].result.payload = calls[c].result.payload

\* ---------------------------------------------------------------------------
\* C6: a lookup of an entry older than 300 seconds returns absent and removes
\* the entry, and the call goes on to a fresh upstream fetch; an entry of age
\* at most 300 is returned and kept; no entry leaves the cache in any other way.
\* ---------------------------------------------------------------------------
C6_LazyExpiry ==
    [][ /\ \A d \in Calls : \A k \in DOMAIN _cache :
              ( Invoked(d) /\ KeyOf(k, calls'[d].name, calls'[d].arguments) ) =>
                  IF Age(k) > 300
                  THEN /\ k \notin DOMAIN _cache'
                       /\ calls'[d].lookup = "expired"
                       /\ calls'[d].pc = "http" /\ calls'[d].attempt = 1
                  ELSE /\ k \in DOMAIN _cache' /\ _cache'[k] = _cache[k]
                       /\ calls'[d].lookup = "hit"
                       /\ calls'[d].result.payload = _cache[k].data
        /\ \A k \in DOMAIN _cache \ DOMAIN _cache' :
              /\ Age(k) > 300
              /\ \E d \in Calls :
                    Invoked(d) /\ KeyOf(k, calls'[d].name, calls'[d].arguments) ]_vars

\* an entry written at 0 found expired at 301 and replaced by a fresh fetch
C6_Witness ==
    \E c, d \in Calls :
        /\ c < d /\ SameCall(c, d)
        /\ Fetched(c) /\ calls[c].result.payload.fetched_at = 0
        /\ Fetched(d) /\ calls[d].lookup = "expired" /\ calls[d].attempt >= 1
        /\ calls[d].result.payload.fetched_at = 301
        /\ \E k \in DOMAIN _cache : _cache[k].ts = 301

\* ---------------------------------------------------------------------------
\* C7: call_tool never raises: every call that has ended has returned one
\* result, a success payload or an error envelope with error and message,
\* the envelope marked isError.
\* ---------------------------------------------------------------------------
C7_NeverRaises ==
    \A c \in Calls :
        /\ calls[c].pc # "raised"
        /\ calls[c].pc = "done" =>
              \/ /\ ~calls[c].result.isError
                 /\ calls[c].result.error = ""
                 /\ calls[c].result.payload # NoPayload
              \/ /\ calls[c].result.isError
                 /\ calls[c].result.error # ""
                 /\ calls[c].result.message # ""
                 /\ calls[c].result.payload = NoPayload

\* a defect (an exception that is no TMDBError) rendered as an envelope
C7_Witness ==
    \E c \in Calls :
        /\ calls[c].pc = "done"
        /\ calls[c].exc.cls = "AttributeError"
        /\ calls[c].result.isError /\ calls[c].result.error = "INTERNAL_ERROR"

\* ---------------------------------------------------------------------------
\* C8: every argument violation of the three data operations fails with
\* VALIDATION_ERROR, with no upstream attempt.  The violations are those the
\* specification lists; an integer is a JSON integer.
\* ---------------------------------------------------------------------------
Outside(v, allowed) == v # Absent /\ v \notin allowed

NotInteger(v) == v # Absent /\ v.t # "int"

ArgViolation(name, args) ==
    LET query == Get(args, "query", Absent)
        type == Get(args, "type", Absent)
        year == Get(args, "year", Absent)
        id == Get(args, "id", Absent)
        sort_by == Get(args, "sort_by", Absent)
    IN  CASE name = "search_title" ->
               \/ query = Absent \/ query.t # "str" \/ Strip(query.s) = <<>>
               \/ Outside(type, {MOVIE, TV})
               \/ NotInteger(year)
          [] name = "get_recommendations" ->
               \/ id = Absent \/ NotInteger(id)
               \/ type = Absent \/ Outside(type, {MOVIE, TV})
          [] name = "discover" ->
               \/ type = Absent \/ Outside(type, {MOVIE, TV})
               \/ NotInteger(year)
               \/ Outside(sort_by, {POPULARITY, VOTE_AVERAGE})
          [] OTHER -> FALSE

C8_ValidationErrors ==
    \A c \in Calls :
        calls[c].pc # "new" /\ ArgViolation(calls[c].name, calls[c].arguments) =>
            /\ calls[c].pc = "done"
            /\ calls[c].result.isError
            /\ calls[c].result.error = "VALIDATION_ERROR"
            /\ calls[c].attempt = 0

\* ---------------------------------------------------------------------------
\* C9: on a response with zero results search_title fails with
\* TITLE_NOT_FOUND (status 404) and nothing is cached; discover and
\* get_recommendations succeed with an empty list, which is cached.
\* ---------------------------------------------------------------------------
ZeroResults(o) == Parseable(o) /\ o.body = Object(<<>>)

C9_ZeroResults ==
    \A c \in Calls :
        ZeroResults(calls[c].resp) =>
            /\ calls[c].pc = "done"
            /\ calls[c].name = "search_title" =>
                  /\ calls[c].result.isError
                  /\ calls[c].result.error = "TITLE_NOT_FOUND"
                  /\ calls[c].exc.status = 404
                  /\ DOMAIN _cache = {}
            /\ calls[c].name \in {"discover", "get_recommendations"} =>
                  /\ ~calls[c].result.isError
                  /\ calls[c].result.payload.results = <<>>
                  /\ \E k \in DOMAIN _cache :
                        /\ k[1] = calls[c].name
                        /\ _cache[k].data = calls[c].result.payload

\* get_recommendations returning, and caching, an empty list
C9_Witness ==
    \E c \in Calls :
        /\ calls[c].pc = "done" /\ calls[c].name = "get_recommendations"
        /\ ZeroResults(calls[c].resp)
        /\ ~calls[c].result.isError /\ calls[c].result.payload.results = <<>>
        /\ DOMAIN _cache # {}

\* ---------------------------------------------------------------------------
\* C10: with the credential unset every fetch fails with CONFIG_ERROR, with no
\* HTTP attempt and no backoff delay; a call that fails with VALIDATION_ERROR
\* or CONFIG_ERROR has made no attempt and taken no delay.
\* ---------------------------------------------------------------------------
Unset == TMDB_API_KEY \in {None, PyStr(<<>>)}

C10_ConfigError ==
    \A c \in Calls :
        /\ Unset =>
              /\ calls[c].pc \in {"new", "done"}
              /\ calls[c].attempt = 0 /\ calls[c].delays = <<>>
              /\ calls[c].request # NoRequest =>
                    calls[c].result.isError /\ calls[c].result.error = "CONFIG_ERROR"
        /\ calls[c].result.error \in {"VALIDATION_ERROR", "CONFIG_ERROR"} =>
              calls[c].attempt = 0 /\ calls[c].delays = <<>>

\* a fetch refused for an empty key
C10_Witness ==
    \E c \in Calls :
        /\ TMDB_API_KEY = PyStr(<<>>)
        /\ calls[c].pc = "done" /\ calls[c].request # NoRequest
        /\ calls[c].result.error = "CONFIG_ERROR" /\ calls[c].attempt = 0

\* ---------------------------------------------------------------------------
\* C11: a call whose name is none of health, search_title, get_recommendations
\* and discover returns an UNKNOWN_TOOL error envelope in the step of its
\* invocation, with no upstream attempt and the cache left as it was; and in
\* every state the operation name of every cache key is a data operation.
\* ---------------------------------------------------------------------------
UnknownName(name) == name \notin DataTools \cup {"health"}

C11_UnknownTool ==
    /\ [](\A k \in DOMAIN _cache : k[1] \in DataTools)
    /\ [](\A c \in Calls :
            (calls[c].pc # "new" /\ UnknownName(calls[c].name)) =>
                /\ calls[c].pc = "done" /\ calls[c].result.isError
                /\ calls[c].result.error = "UNKNOWN_TOOL"
                /\ calls[c].attempt = 0 /\ calls[c].delays = <<>>
                /\ calls[c].request = NoRequest)
    /\ [][ \A d \in Calls :
              (Invoked(d) /\ UnknownName(calls'[d].name)) => _cache' = _cache ]_vars

\* get_cast is refused while the cache holds an entry
C11_Witness ==
    \E c \in Calls :
        /\ calls[c].name = "get_cast" /\ calls[c].pc = "done"
        /\ calls[c].result.error = "UNKNOWN_TOOL" /\ calls[c].attempt = 0
        /\ calls[c].arguments = <<Pair("type", MOVIE)>>
        /\ DOMAIN _cache # {}

\* ---------------------------------------------------------------------------
\* C12: the envelope's error code is the code of the classified error
\* (TMDBError) that ended the call, and INTERNAL_ERROR is reported exactly when
\* the failure is not a classified error; no validation failure, upstream
\* failure or routing failure is reported as INTERNAL_ERROR.
\* ---------------------------------------------------------------------------
Classified(e) == e.cls = "TMDBError"

\* the call failed on its arguments, before any fetch
ValidationFailure(c) ==
    /\ Failure(c) /\ calls[c].attempt = 0
    /\ ArgViolation(calls[c].name, calls[c].arguments)

\* the call failed on the outcome of its last attempt
UpstreamFailure(c) ==
    /\ Failure(c) /\ calls[c].attempt >= 1
    /\ Transient(calls[c].resp) \/ Permanent4xx(calls[c].resp) \/ Unparseable(calls[c].resp)

RoutingFailure(c) == Failure(c) /\ UnknownName(calls[c].name)

\* the two directions of the claim that the except clauses alone decide
C12_Clauses ==
    \A c \in Calls :
        Failure(c) =>
            /\ Classified(calls[c].exc) => calls[c].result.error = calls[c].exc.code
            /\ calls[c].result.error = "INTERNAL_ERROR" <=> ~Classified(calls[c].exc)
            /\ UpstreamFailure(c) \/ RoutingFailure(c) =>
                  calls[c].result.error # "INTERNAL_ERROR"

C12_ErrorCodes ==
    /\ C12_Clauses
    /\ \A c \in Calls :
          ValidationFailure(c) => calls[c].result.error # "INTERNAL_ERROR"

\* this step is the invocation of data call d, and d fails validation in it
FailsValidation(d) ==
    /\ Invoked(d) /\ calls'[d].name \in DataTools
    /\ calls'[d].pc = "done" /\ calls'[d].result.error = "VALIDATION_ERROR"

\* ---------------------------------------------------------------------------
\* C13 as stated: a data call that fails validation has no cache interaction:
\* it makes no lookup, evicts nothing and writes nothing, so the cache is
\* unchanged by the call.
\* ---------------------------------------------------------------------------
C13_NoCacheInteraction ==
    [][ \A d \in Calls :
          FailsValidation(d) => calls'[d].lookup = "none" /\ _cache' = _cache ]_vars

\* ---------------------------------------------------------------------------
\* C13 amended: a data call that fails validation makes the one cache lookup
\* every data call starts with (line 400), which finds no entry of its key; it
\* evicts nothing and writes nothing, so the cache is unchanged by the call,
\* and no upstream attempt is made.
\* ---------------------------------------------------------------------------
C13_NoCacheEffect ==
    [][ \A d \in Calls :
          FailsValidation(d) =>
              /\ calls'[d].lookup = "absent"
              /\ \A k \in DOMAIN _cache :
                    ~KeyOf(k, calls'[d].name, calls'[d].arguments)
              /\ _cache' = _cache
              /\ calls'[d].attempt = 0 ]_vars

\* a validation failure next to a cache that holds an entry of another call
C13_Witness ==
    \E c, d \in Calls :
        /\ c < d /\ Fetched(c)
        /\ calls[d].name \in DataTools /\ calls[d].pc = "done"
        /\ calls[d].result.error = "VALIDATION_ERROR"
        /\ calls[d].lookup = "absent" /\ calls[d].attempt = 0
        /\ \E k \in DOMAIN _cache :
              KeyOf(k, calls[c].name, calls[c].arguments)
              /\ _cache[k].data = calls[c].result.payload

\* ---------------------------------------------------------------------------
\* C14: health bypasses the cache: in every state it returns, in the step of
\* its invocation, a non-error result that reports whether the credential is
\* configured and the number of entries the cache holds at that moment; it
\* makes no lookup and no upstream request and leaves the cache unchanged.
\* ---------------------------------------------------------------------------
C14_Health ==
    [][ \A d \in Calls :
          (Invoked(d) /\ calls'[d].name = "health") =>
              /\ calls'[d].pc = "done" /\ ~calls'[d].result.isError
              /\ calls'[d].result.payload.status = "ok"
              /\ calls'[d].result.payload.tmdb_api_key_configured = ~Unset
              /\ calls'[d].result.payload.cache_entries = Cardinality(DOMAIN _cache)
              /\ calls'[d].lookup = "none"
              /\ calls'[d].attempt = 0 /\ calls'[d].request = NoRequest
              /\ _cache' = _cache ]_vars

\* health at time 301 counts the entry written at 0, which stays in the cache
C14_Witness ==
    \E d \in Calls :
        /\ calls[d].name = "health" /\ calls[d].pc = "done"
        /\ calls[d].result.payload.timestamp_utc = 301
        /\ calls[d].result.payload.cache_entries = 1
        /\ calls[d].result.payload.tmdb_api_key_configured
        /\ \E k \in DOMAIN _cache : _cache[k].ts = 0

\* this step is the successful completion of the fetch of call c
Completes(c) ==
    calls[c].pc = "http" /\ calls'[c].pc = "done" /\ ~calls'[c].result.isError

\* the entry of key k differs between the two states of the step
EntryChanged(k) ==
    \/ (k \in DOMAIN _cache) # (k \in DOMAIN _cache')
    \/ k \in DOMAIN _cache /\ k \in DOMAIN _cache' /\ _cache'[k] # _cache[k]

\* ---------------------------------------------------------------------------
\* C15: under any interleaving of in-flight calls the cache map stays well
\* formed: no two keys stand for the same operation name and arguments, every
\* entry is the (timestamp, payload) pair written by a successful call of
\* exactly that key, and each completing fetch overwrites the entry of its own
\* key and no other, so that of several calls that missed on one key the one
\* that completed last has left the entry.
\* ---------------------------------------------------------------------------
C15_CacheIntegrity ==
    /\ [](\A k1, k2 \in DOMAIN _cache :
            (k1[1] = k2[1] /\ SameUpToOrder(k1[2], k2[2])) => k1 = k2)
    /\ [](\A k \in DOMAIN _cache :
            \E c \in Calls :
                /\ Fetched(c) /\ KeyOf(k, calls[c].name, calls[c].arguments)
                /\ _cache[k].data = calls[c].result.payload
                /\ _cache[k].ts \in 0..now)
    /\ [][ \A c \in Calls :
              Completes(c) =>
                  \E k \in DOMAIN _cache' :
                      /\ KeyOf(k, calls[c].name, calls[c].arguments)
                      /\ _cache'[k] = [ts |-> now, data |-> calls'[c].result.payload]
                      /\ \A k2 \in (DOMAIN _cache \cup DOMAIN _cache') \ {k} :
                            ~EntryChanged(k2) ]_vars
    /\ [][ \A k \in DOMAIN _cache' :
              EntryChanged(k) =>
                  \E c \in Calls :
                      Completes(c) /\ KeyOf(k, calls[c].name, calls[c].arguments) ]_vars

\* two calls miss on one key; the first to be invoked completes last, at 300,
\* and its payload has replaced the one written at 0
C15_Witness ==
    \E c, d \in Calls :
        /\ c < d /\ SameCall(c, d)
        /\ calls[c].lookup = "absent" /\ calls[d].lookup = "absent"
        /\ Fetched(c) /\ Fetched(d)
        /\ calls[d].result.payload.fetched_at = 0
        /\ calls[c].result.payload.fetched_at = 300
        /\ \E k \in DOMAIN _cache :
              /\ KeyOf(k, calls[c].name, calls[c].arguments)
              /\ _cache[k] = [ts |-> 300, data |-> calls[c].result.payload]

\* ---------------------------------------------------------------------------
\* C16: a backoff delay in one call never blocks another call: in every state
\* in which a call c is suspended in its backoff sleep, any other call can
\* take its next step with c still asleep: the next call can be invoked, a
\* pending request can complete and its call return, another sleeper can wake.
\* ---------------------------------------------------------------------------
C16_BackoffNonBlocking ==
    \A c, d \in Calls :
        (c # d /\ calls[c].pc = "sleep") =>
            /\ (calls[d].pc = "new" /\ \A e \in Calls : e < d => calls[e].pc # "new") =>
                  ENABLED (call_tool(d, Names, ArgObjects) /\ calls'[c].pc = "sleep")
            /\ calls[d].pc = "http" =>
                  ENABLED (HttpDone(d, Outcomes) /\ calls'[d].pc = "done"
                           /\ calls'[c].pc = "sleep")
            /\ calls[d].pc = "sleep" =>
                  ENABLED (Wake(d) /\ calls'[c].pc = "sleep")

\* call c sleeps after its first attempt while d, invoked after it, has its
\* request pending and can be served and return successfully at once
C16_Witness ==
    \E c, d \in Calls :
        /\ c < d /\ calls[c].pc = "sleep" /\ calls[c].delays = <<1>>
        /\ calls[d].pc = "http"
        /\ ENABLED (HttpDone(d, Outcomes) /\ calls'[d].pc = "done"
                    /\ ~calls'[d].result.isError /\ calls'[c].pc = "sleep")

\* the date of a provider record: its release_date, else its first_air_date;
\* a date that is left out, null or empty is no date
HasDate(v) == v.t = "str" /\ v.s # <<>>

DateOf(item) ==
    IF HasDate(item.release_date) THEN item.release_date.s
    ELSE IF HasDate(item.first_air_date) THEN item.first_air_date.s
    ELSE <<>>

\* a date in the provider's format starts with a 4-digit year and a dash
StartsWithYear(cs) ==
    Len(cs) >= 5 /\ IsDigits(SubSeq(cs, 1, 4)) /\ cs[5] = "-"

YearPrefix(cs) == DigitsValue(SubSeq(cs, 1, 4))

\* a record as the provider sends it: an id, a number or nothing for rating,
\* a date in the provider's format or none
ProviderRecord(item) ==
    /\ item.id.t = "int" \/ (item.id.t = "str" /\ IsDigits(item.id.s))
    /\ item.vote_average.t \in {"absent", "null", "int", "float"}
    /\ DateOf(item) = <<>> \/ StartsWithYear(DateOf(item))

\* call c is a search_title call whose last attempt brought provider records
SearchWithResults(c) ==
    /\ calls[c].name = "search_title" /\ calls[c].pc = "done" /\ calls[c].attempt >= 1
    /\ Parseable(calls[c].resp) /\ calls[c].resp.body.json = "object"
    /\ calls[c].resp.body.results # <<>>
    /\ \A i \in 1..Len(calls[c].resp.body.results) :
          ProviderRecord(calls[c].resp.body.results[i])

\* ---------------------------------------------------------------------------
\* C17: a search_title call with a valid query that is answered with at least
\* one provider record returns one normalized item per record, in the order of
\* the records, and the year of each item is the integer value of the 4-digit
\* prefix of the record's release_date or first_air_date, or None when the
\* record has no date.
\* ---------------------------------------------------------------------------
C17_YearOfItems ==
    \A c \in Calls :
        SearchWithResults(c) =>
            LET records == calls[c].resp.body.results
                items == calls[c].result.payload.results
            IN  /\ ~calls[c].result.isError
                /\ Len(items) = Len(records)
                /\ \A i \in 1..Len(records) :
                      /\ records[i].id.t = "int" => items[i].id = records[i].id
                      /\ items[i].year =
                            IF DateOf(records[i]) = <<>> THEN None
                            ELSE PyInt(YearPrefix(DateOf(records[i])))

\* three records, dated by first_air_date, undated and dated by release_date
C17_Witness ==
    \E c \in Calls :
        /\ SearchWithResults(c) /\ Len(calls[c].resp.body.results) = 3
        /\ calls[c].result.payload.results[1].year = PyInt(2017)
        /\ calls[c].result.payload.results[2].year = None
        /\ calls[c].result.payload.results[3].year = PyInt(2010)
        /\ calls[c].result.payload.results[3].id = PyInt(123)

RECURSIVE Sum(_)
Sum(ds) == IF ds = <<>> THEN 0 ELSE Head(ds) + Sum(Tail(ds))

\* ---------------------------------------------------------------------------
\* C18: within one fetch a backoff delay is taken only after a retryable
\* failure that is not the final attempt: the first delay is 1 and the second
\* 2, so a fetch takes at most two delays totalling 3; a call is asleep only
\* after a retryable outcome of attempt 1 or 2, and no delay follows the third
\* attempt, a success or a permanent failure.
\* ---------------------------------------------------------------------------
C18_BackoffDelays ==
    \A c \in Calls :
        /\ calls[c].delays \in {<<>>, <<1>>, <<1, 2>>}
        /\ Sum(calls[c].delays) <= 3
        /\ calls[c].pc = "sleep" =>
              /\ Transient(calls[c].resp) /\ calls[c].attempt < 3
              /\ Len(calls[c].delays) = calls[c].attempt
        /\ calls[c].pc = "http" => Len(calls[c].delays) = calls[c].attempt - 1
        /\ (Ended(c) /\ calls[c].attempt >= 1) =>
              Len(calls[c].delays) = calls[c].attempt - 1
        /\ calls[c].attempt = 0 => calls[c].delays = <<>>

\* three retryable failures: delays 1 and 2, none after the third attempt
C18_Witness ==
    \E c \in Calls :
        /\ calls[c].pc = "done" /\ calls[c].attempt = 3
        /\ calls[c].result.error = "UPSTREAM_ERROR"
        /\ calls[c].delays = <<1, 2>> /\ Sum(calls[c].delays) = 3

\* call c is a data call whose last attempt brought records, each with an id
AnsweredWithRecords(c) ==
    /\ calls[c].name \in DataTools /\ calls[c].pc = "done" /\ calls[c].attempt >= 1
    /\ Parseable(calls[c].resp) /\ calls[c].resp.body.json = "object"
    /\ calls[c].resp.body.results # <<>>
    /\ \A i \in 1..Len(calls[c].resp.body.results) :
          calls[c].resp.body.results[i].id.t = "int"

\* ---------------------------------------------------------------------------
\* C19: the normalizer has no failure path: whatever the optional fields of
\* the records hold, a data call answered with records returns one item per
\* record with its id and a title, a date that is not a date giving year None,
\* and never an error envelope.
\* ---------------------------------------------------------------------------
C19_NormalizerTotal ==
    \A c \in Calls :
        AnsweredWithRecords(c) =>
            LET records == calls[c].resp.body.results
                items == calls[c].result.payload.results
            IN  /\ ~calls[c].result.isError
                /\ Len(items) = Len(records)
                /\ \A i \in 1..Len(records) :
                      /\ items[i].id = records[i].id
                      /\ items[i].title.t = "str"
                      /\ ~StartsWithYear(DateOf(records[i])) => items[i].year = None

\* ---------------------------------------------------------------------------
\* C20: if every HTTP attempt eventually completes and every backoff delay
\* eventually elapses, every call that has been invoked eventually returns a
\* result, whatever the other calls do.
\* ---------------------------------------------------------------------------
C20_Termination ==
    \A c \in Calls : (calls[c].pc # "new") ~> (calls[c].pc = "done")

\* a call returned after using its whole retry budget, beside another call
\* that went through a backoff and returned too
C20_Witness ==
    \E c, d \in Calls :
        /\ c # d
        /\ calls[c].pc = "done" /\ calls[c].attempt = 3 /\ calls[c].delays = <<1, 2>>
        /\ calls[c].result.error = "RATE_LIMIT"
        /\ calls[d].pc = "done" /\ calls[d].attempt = 2 /\ ~calls[d].result.isError

\* this step returns a payload of a data operation to the caller of d
Returns(d) ==
    /\ calls[d].pc # "done" /\ calls'[d].pc = "done"
    /\ calls'[d].name \in DataTools /\ ~calls'[d].result.isError

====
